---- MODULE Spec2Model ----
(***************************************************************************)
(* Ising spin systems of the repository: the periodic lattice              *)
(* (NormalIsing, Metropolis and Wolff updates), the graph variants and the *)
(* measurement pipeline compute_properties.                                *)
(*                                                                         *)
(* Numbers.  Spins, J and h are integers.  A temperature T is a pair       *)
(* <<num, den>> (T = num/den), beta = 1/T is the record [n, d] (n/d).      *)
(* A uniform draw np.random.random() is u = k/Grid for k in Draws, and     *)
(* epsilon is a number of Grid-ths.                                        *)
(***************************************************************************)
EXTENDS Integers, Sequences, FiniteSets, TLC

VARIABLES
    kind,            \* the class of the object: "normal" (NormalIsing), "graph"
                     \* (GraphIsing), "directed" (DirectedGraphIsing), "dual"
                     \* (DualGraphIsing), "cache" (CacheFile)
    dim, size,       \* self.dim, self.size
    J, h, beta,      \* self.J (self.J_A of a DualGraphIsing), self.h, self.beta
    J_B, C,          \* self.J_B, self.C (in CUnit-ths) of a DualGraphIsing
    G,               \* self.G of the graph classes
    influencer_nodes, \* self.influencer_nodes of a GraphIsing, when set
    mode, epsilon,   \* self.mode, self.epsilon (in Grid-ths)
    wolff,           \* TRUE iff self.move is wolff_move
    length_cycle,    \* self.length_cycle
    spins,           \* self.spins (self.spins_A of a DualGraphIsing): site -> spin
    spins_B,         \* self.spins_B of a DualGraphIsing
    energy,          \* self.energy (the cache)
    magnetization,   \* self.magnetization (the cache)
    wpc,             \* position inside wolff_move: "idle", "pop", "dir", "flip"
    start_idx, target_spin, in_cluster, stack, widx, wdir,  \* wolff_move locals
    order,           \* wolff_move: the sites in the order they were marked (history)
    before,          \* history: self.spins when the running/last move was called
    last,            \* history: what the last call did ("running" until it returns)
    err,             \* the exception the last call raised, or "none"
    nmoves,          \* number of calls (moves, resets) the user made so far
    call,            \* compute_properties: its arguments
    cp,              \* compute_properties: its position (pc) and locals
    results,         \* compute_properties: the results dict
    obs,             \* history of the running compute_properties call
    file,            \* CacheFile: the file at self.path, None when missing
    obj,             \* CacheFile: self.obj, the CacheObject of the block
    blk,             \* CacheFile: position of the with block
    file_at_enter    \* history: the file when the block was entered

\* An attribute the class never sets
Unset == "unset"

\* An optional argument, or an attribute set on one path only: <<>> is None
\* (never set), <<v>> is v
None == <<>>
Some(v) == <<v>>

cachevars == <<file, obj, blk, file_at_enter>>
\* what no move, reset or measurement assigns
params == <<kind, dim, size, J, J_B, C, G, influencer_nodes, mode, epsilon, wolff,
            length_cycle, cachevars>>
wvars == <<wpc, start_idx, target_spin, in_cluster, stack, widx, wdir, order>>
vars == <<kind, dim, size, J, h, beta, J_B, C, G, influencer_nodes, mode,
          epsilon, wolff, length_cycle, spins, spins_B, energy, magnetization,
          wpc, start_idx, target_spin, in_cluster, stack, widx, wdir, order,
          before, last, err, nmoves, call, cp, results, obs,
          file, obj, blk, file_at_enter>>
cpvars == <<call, cp, results, obs>>

----------------------------------------------------------------------------
(* Bounds and input sets *)

MaxCalls == 2

\* model.move() is called by the user (at most MaxCalls calls), or by a
\* running compute_properties in its warm-up and measurement loops
MayCall == cp.pc = "off" /\ nmoves < MaxCalls

MayMove ==
    IF cp.pc = "off" THEN nmoves < MaxCalls
    ELSE cp.pc \in {"warmup", "sweep", "step"} /\ cp.k > 0

\* the move returns to its caller
MoveReturns ==
    /\ IF cp.pc = "off"
       THEN nmoves' = nmoves + 1 /\ UNCHANGED <<cp, obs>>
       ELSE /\ cp' = [cp EXCEPT !.k = @ - 1,
                              !.pc = IF @ = "step" THEN "test" ELSE @]
            /\ obs' = [obs EXCEPT !.moves = @ + 1, !.total = @ + 1,
                                  !.fresh = FALSE]
            /\ UNCHANGED nmoves
    /\ UNCHANGED <<call, results>>

\* the history of a move: what a user's call did, and the spins it found; the
\* calls of a running compute_properties or iterations_to_treshold log their
\* name only
Log(record) == IF cp.pc = "off" THEN record ELSE [op |-> record.op]
Found(sp) == IF cp.pc = "off" THEN sp ELSE before

UserReturns == nmoves' = nmoves + 1 /\ UNCHANGED cpvars

CpOff == call = None /\ cp = [pc |-> "off"] /\ results = None /\ obs = None

Grid == 4
Draws == 0 .. (Grid - 1)

Shapes == {<<1, 1>>, <<2, 1>>, <<3, 1>>, <<1, 2>>, <<2, 2>>}   \* <<L, dim>>
Couplings == {1, -1}
Temps == {<<2, 1>>, <<1, 1000>>}                  \* T = 2.0 and T = 0.001
\* <<J, h, T>> of a lattice
Physics == {<<1, 0, <<2, 1>>>>, <<1, 1, <<1, 1000>>>>,
            <<-1, 0, <<1, 1000>>>>, <<-1, 1, <<2, 1>>>>}
\* <<J_A, J_B>> of a dual graph
DualCouplings == {<<1, 1>>, <<1, -1>>}
Epsilons == {1, 2, 3}

----------------------------------------------------------------------------
(* Arithmetic helpers *)

RECURSIVE SumSeq(_)
SumSeq(s) == IF s = <<>> THEN 0 ELSE Head(s) + SumSeq(Tail(s))

RECURSIVE SumFn(_)
SumFn(f) ==
    IF DOMAIN f = {} THEN 0
    ELSE LET x == CHOOSE y \in DOMAIN f : TRUE
         IN f[x] + SumFn([y \in (DOMAIN f) \ {x} |-> f[y]])

RECURSIVE Pow(_, _)
Pow(b, e) == IF e = 0 THEN 1 ELSE b * Pow(b, e - 1)

\* 1./T for T # 0, with the sign kept in the numerator
Beta(T) ==
    IF T[1] < 0 THEN [n |-> -T[2], d |-> -T[1]] ELSE [n |-> T[2], d |-> T[1]]

\* u < np.exp(-x) for the draw u = k/Grid and x = xn/xd (xd > 0), with the
\* double-precision exp: exp(-x) is 0.0 from x = 745.14 on, and
\* k/4 < exp(-x) iff x < ln(4/(4-k))  (ln 4/3 = 0.28768..., ln 2 =
\* 0.69314..., ln 4 = 1.38629...).
ExpLess(k, xn, xd) ==
    CASE k = 0 -> xn * 100 < 74514 * xd
      [] k = 1 -> xn * 10000 < 13863 * xd
      [] k = 2 -> xn * 10000 < 6931 * xd
      [] OTHER -> xn * 10000 < 2877 * xd

----------------------------------------------------------------------------
(* NormalIsing *)

Sites(L, d) == [1 .. d -> 0 .. (L - 1)]

AllSpins(L, d) == [Sites(L, d) -> {-1, 1}]

\* the sites _get_neighbors reads: forward, then backward, per dimension
NeighborIdx(idx, only_forward, L, d) ==
    LET fwd(k) == [idx EXCEPT ![k] = (@ + 1) % L]
        bwd(k) == [idx EXCEPT ![k] = (@ - 1) % L]
        RECURSIVE from(_)
        from(k) == IF k > d THEN <<>>
                   ELSE (IF only_forward THEN <<fwd(k)>> ELSE <<fwd(k), bwd(k)>>)
                        \o from(k + 1)
    IN from(1)

_get_neighbors(sp, idx, only_forward, L, d) ==
    LET n == NeighborIdx(idx, only_forward, L, d)
    IN [i \in 1 .. Len(n) |-> sp[n[i]]]

\* NormalIsing._get_energy on spins sp of an L^d lattice with coupling j, field f
LatticeEnergy(sp, L, d, j, f) ==
    SumFn([idx \in DOMAIN sp |->
              -j * sp[idx] * SumSeq(_get_neighbors(sp, idx, TRUE, L, d))])
    + (-f * SumFn(sp))

_get_energy(sp) == LatticeEnergy(sp, size, dim, J, h)

_get_magnetization(sp) == SumFn(sp)

Idle == [op |-> "none"]

\* no with block of a CacheFile is involved
NoCacheFile ==
    file = None /\ obj = Unset /\ blk = "off" /\ file_at_enter = None

NoWolff ==
    /\ wpc = "idle" /\ start_idx = <<>> /\ target_spin = 0 /\ in_cluster = {}
    /\ stack = <<>> /\ widx = <<>> /\ wdir = 0 /\ order = <<>>

\* NormalIsing.__init__(T, J, L, dim, h, mode, epsilon, wolff) with sh =
\* <<L, dim>> and ph = <<J, h, T>>; _reset_spin() draws every spin
\* LengthCycle of a Metropolis lattice whatever wolff is
LengthCycleOfSites(w, L, d) == Pow(L, d)

\* "if not wolff: ... self.length_cycle = self.size ** self.dim / else: ... 1"
LengthCycle(w, L, d) == IF w THEN 1 ELSE Pow(L, d)

NormalIsing(sh, ph, m, e, w) ==
      LET j == ph[1]  f == ph[2]  T == ph[3] IN
        /\ kind = "normal"
        /\ J_B = Unset /\ C = Unset /\ G = Unset /\ influencer_nodes = None
        /\ spins_B = Unset /\ err = "none"
        /\ size = sh[1] /\ dim = sh[2]
        /\ J = j /\ h = f /\ beta = Beta(T)
        /\ mode = m /\ epsilon = e /\ wolff = w
        /\ length_cycle = LengthCycle(w, sh[1], sh[2])
        /\ spins \in AllSpins(sh[1], sh[2])
        /\ energy = LatticeEnergy(spins, sh[1], sh[2], j, f)
        /\ magnetization = _get_magnetization(spins)
        /\ NoWolff /\ NoCacheFile
        /\ before = spins
        /\ last = Idle
        /\ nmoves = 0

\* the NormalIsing objects the user constructs
InitNormal ==
    \E sh \in Shapes, ph \in Physics,
       m \in {"normal", "self_identity"}, e \in Epsilons, w \in BOOLEAN :
        /\ (m = "normal" => e = 2)      \* epsilon is read in self_identity only
        /\ (w => m = "normal")          \* mode is read by metropolis_move only
        /\ NormalIsing(sh, ph, m, e, w)
        /\ CpOff

\* delta_energy of the energy-based rule
\* DeltaEnergy without the factor 2
DeltaEnergyHalved(spin, total_neighbor) ==
    J * spin * total_neighbor + h * spin

DeltaEnergy(spin, total_neighbor) ==
    2 * J * spin * total_neighbor + 2 * h * spin

\* a flip of every site
FlipEverySite(sp, idx) == [s \in DOMAIN sp |-> sp[s] * (-1)]

\* self.spins[idx] *= -1
FlipSite(sp, idx) == [sp EXCEPT ![idx] = @ * (-1)]

\* the branch "majorite differente" of mode self_identity
Minority(spin, total_neighbor) ==
    mode = "self_identity" /\ ~(spin * total_neighbor >= 0)

\* Accepted with prob_flip = self.epsilon in the minority branch
AcceptedEpsilon(u, spin, total_neighbor) ==
    IF Minority(spin, total_neighbor)
    THEN u < epsilon
    ELSE ExpLess(u, beta.n * DeltaEnergy(spin, total_neighbor), beta.d)

\* np.random.random() < prob_flip, for the draw u
Accepted(u, spin, total_neighbor) ==
    IF Minority(spin, total_neighbor)
    THEN u < Grid - epsilon
    ELSE ExpLess(u, beta.n * DeltaEnergy(spin, total_neighbor), beta.d)

metropolis_move ==
    /\ kind = "normal" /\ ~wolff /\ wpc = "idle"
    /\ MayMove
    /\ \E idx \in Sites(size, dim), u \in Draws :
        LET spin == spins[idx]
            total_neighbor == SumSeq(_get_neighbors(spins, idx, FALSE, size, dim))
            delta_energy == IF Minority(spin, total_neighbor) THEN 0
                            ELSE DeltaEnergy(spin, total_neighbor)
            flip == Accepted(u, spin, total_neighbor)
        IN  /\ spins' = IF flip THEN FlipSite(spins, idx) ELSE spins
            /\ energy' = IF flip THEN energy + delta_energy ELSE energy
            /\ magnetization' = IF flip THEN magnetization + 2 * spins'[idx]
                                ELSE magnetization
            /\ last' = Log([op |-> "metropolis", idx |-> idx, u |-> u,
                            spin |-> spin, total_neighbor |-> total_neighbor,
                            delta_energy |-> delta_energy, flipped |-> flip])
    /\ before' = Found(spins)
    /\ MoveReturns
    /\ UNCHANGED <<params, h, beta, spins_B, err, wvars>>

\* directions of wolff_move: +e_1, -e_1, +e_2, -e_2, ...
Directions(d) ==
    [i \in 1 .. 2 * d |->
        [k \in 1 .. d |-> IF k = (i + 1) \div 2
                          THEN (IF i % 2 = 1 THEN 1 ELSE -1) ELSE 0]]

\* np.random.random() < p with p = 1.0 - np.exp(-2.0 * self.beta):
\* u = k/Grid < p iff not ((Grid-k)/Grid <= exp(-2 beta))
WolffAccepted(u) ==
    IF u = 0 THEN ~(2 * beta.n <= 0)
    ELSE ~ExpLess(Grid - u, 2 * beta.n, beta.d)

\* wolff_move, lines 83-98: seed the cluster
wolff_start ==
    /\ kind = "normal" /\ wolff /\ wpc = "idle"
    /\ MayMove
    /\ \E s \in Sites(size, dim) :
        /\ start_idx' = s
        /\ target_spin' = spins[s]
        /\ in_cluster' = {s}
        /\ stack' = <<s>>
        /\ order' = <<s>>
    /\ widx' = <<>> /\ wdir' = 0
    /\ before' = Found(spins)
    /\ wpc' = "pop"
    /\ last' = [op |-> "running"]
    /\ UNCHANGED <<params, h, beta, spins, spins_B, err, energy, magnetization, nmoves,
                   cpvars>>

\* wolff_pop reading the top of the stack without removing it
wolff_peek ==
    /\ wpc = "pop" /\ stack # <<>>
    /\ widx' = stack[Len(stack)]
    /\ stack' = stack
    /\ wdir' = 1
    /\ wpc' = "dir"
    /\ UNCHANGED <<params, h, beta, spins, spins_B, err, energy, magnetization,
                   last, nmoves, cpvars,
                   start_idx, target_spin, in_cluster, order, before>>

\* while stack: idx = stack.pop()
wolff_pop ==
    /\ wpc = "pop" /\ stack # <<>>
    /\ widx' = stack[Len(stack)]
    /\ stack' = SubSeq(stack, 1, Len(stack) - 1)
    /\ wdir' = 1
    /\ wpc' = "dir"
    /\ UNCHANGED <<params, h, beta, spins, spins_B, err, energy, magnetization,
                   last, nmoves, cpvars,
                   start_idx, target_spin, in_cluster, order, before>>

\* Candidate without the comparison with target_spin
CandidateAnySpin(neigh_idx) == neigh_idx \notin in_cluster

\* the neighbour test of the running direction
Candidate(neigh_idx) ==
    (neigh_idx \notin in_cluster) /\ (spins[neigh_idx] = target_spin)

\* a pass that marks nothing
MarkNothing(cluster, neigh_idx) == cluster

\* in_cluster[neigh_idx] = True
Mark(cluster, neigh_idx) == cluster \cup {neigh_idx}

\* one pass of "for d in directions"
wolff_dir ==
    /\ wpc = "dir"
    /\ LET d == Directions(dim)[wdir]
           neigh_idx == [i \in 1 .. dim |-> (widx[i] + d[i]) % size]
       IN \E u \in Draws :
            IF Candidate(neigh_idx) /\ WolffAccepted(u)
            THEN /\ in_cluster' = Mark(in_cluster, neigh_idx)
                 /\ stack' = Append(stack, neigh_idx)
                 /\ order' = Append(order, neigh_idx)
            ELSE UNCHANGED <<in_cluster, stack, order>>
    /\ IF wdir = 2 * dim
       THEN wpc' = "pop" /\ wdir' = 0
       ELSE wpc' = "dir" /\ wdir' = wdir + 1
    /\ UNCHANGED <<params, h, beta, spins, spins_B, err, energy, magnetization,
                   last, nmoves, cpvars,
                   start_idx, target_spin, widx, before>>

\* self.spins[in_cluster] *= -1
FlipCluster(sp, cluster) ==
    [s \in DOMAIN sp |-> IF s \in cluster THEN sp[s] * (-1) ELSE sp[s]]

\* the stack is empty: flip the cluster, recompute the aggregates and return
\* (the locals are gone; the history keeps the cluster and its order)
wolff_flip ==
    /\ wpc = "pop" /\ stack = <<>>
    /\ spins' = FlipCluster(spins, in_cluster)
    /\ energy' = _get_energy(spins')
    /\ magnetization' = _get_magnetization(spins')
    /\ last' = Log([op |-> "wolff", idx |-> start_idx, in_cluster |-> in_cluster,
                    order |-> order])
    /\ wpc' = "idle" /\ start_idx' = <<>> /\ target_spin' = 0 /\ in_cluster' = {}
    /\ stack' = <<>> /\ widx' = <<>> /\ wdir' = 0 /\ order' = <<>>
    /\ MoveReturns
    /\ UNCHANGED <<params, h, beta, spins_B, err, before>>

wolff_move == wolff_start \/ wolff_pop \/ wolff_dir \/ wolff_flip

\* ResetTo with np.zeros in place of np.ones
ResetToZeros(to_value, sites) == [s \in sites |-> to_value * 0]

\* _reset_spin with to_value: to_value * np.ones(shape)
ResetTo(to_value, sites) == [s \in sites |-> to_value * 1]


\* NormalIsing._reset_spin(to_value): the spins only
reset_spin ==
    /\ kind = "normal" /\ wpc = "idle"
    /\ MayCall
    /\ \E to_value \in {None, Some(-1), Some(1)} :
        /\ IF to_value # None
           THEN spins' = ResetTo(to_value[1], Sites(size, dim))
           ELSE spins' \in AllSpins(size, dim)
        /\ last' = [op |-> "reset", to_value |-> to_value]
    /\ before' = spins
    /\ UserReturns
    /\ UNCHANGED <<params, h, beta, spins_B, err, energy, magnetization, wvars>>

----------------------------------------------------------------------------
(* Graphs: nodes 0 .. n-1, edges as pairs <<i, j>>; an undirected graph holds *)
(* each edge once, as G.edges lists it                                       *)

Path2 == [nodes |-> 0 .. 1, edges |-> {<<0, 1>>}, directed |-> FALSE]
Path3 == [nodes |-> 0 .. 2, edges |-> {<<0, 1>>, <<1, 2>>}, directed |-> FALSE]
Cycle4 == [nodes |-> 0 .. 3, directed |-> FALSE,
           edges |-> {<<0, 1>>, <<1, 2>>, <<2, 3>>, <<3, 0>>}]
DiCycle3 == [nodes |-> 0 .. 2, directed |-> TRUE,
             edges |-> {<<0, 1>>, <<1, 2>>, <<2, 0>>}]
DiTwoWay == [nodes |-> 0 .. 1, directed |-> TRUE, edges |-> {<<0, 1>>, <<1, 0>>}]
DiFan == [nodes |-> 0 .. 3, directed |-> TRUE,
          edges |-> {<<0, 1>>, <<0, 2>>, <<3, 0>>}]

UGraphs == {Path3, Cycle4}
DGraphs == {DiCycle3, DiTwoWay, DiFan}
DualGraphs == {Path2, Path3}

\* G.neighbors(node) of an undirected graph
Neighbors(g, node) ==
    {n \in g.nodes : <<node, n>> \in g.edges \/ <<n, node>> \in g.edges}

\* G.predecessors(node) of a directed graph
Predecessors(g, node) == {n \in g.nodes : <<n, node>> \in g.edges}

SumOver(sp, S) == SumFn([n \in S |-> sp[n]])

\* sum over G.edges of -J * spins[i] * spins[j]
EdgeEnergy(sp, g, j) == SumFn([e \in g.edges |-> -j * sp[e[1]] * sp[e[2]]])

\* delta_E <= 0 or np.random.rand() < np.exp(-self.beta * delta_E): the
\* outcomes over the draws, delta_E = xn/xd (xd > 0); no draw when delta_E <= 0
Outcomes(xn, xd) ==
    IF xn <= 0 THEN {TRUE} ELSE {ExpLess(u, beta.n * xn, beta.d * xd) : u \in Draws}

----------------------------------------------------------------------------
(* GraphIsing *)

\* get_members_of_association(student_graph, influent_association): the
\* members an association may have
Members(g) == SUBSET g.nodes

\* GraphIsing.__init__(G, T, J, influent_association, student_graph)
InitGraph ==
    \E g \in UGraphs, j \in Couplings, T \in Temps :
      \E influencer \in {None} \cup {Some(m) : m \in Members(g)} :
        /\ kind = "graph"
        /\ G = g /\ size = Cardinality(g.nodes) /\ dim = 1
        /\ length_cycle = Cardinality(g.nodes)
        /\ J = j /\ beta = Beta(T)
        /\ h = Unset /\ J_B = Unset /\ C = Unset /\ spins_B = Unset
        /\ mode = Unset /\ epsilon = Unset /\ wolff = Unset
        /\ IF influencer = None
           THEN /\ influencer_nodes = None
                /\ spins \in [g.nodes -> {-1, 1}]
           ELSE /\ influencer_nodes = influencer
                /\ spins = [node \in g.nodes |->
                              IF node \in influencer[1] THEN 1 ELSE -1]
        /\ energy = EdgeEnergy(spins, g, j)
        /\ magnetization = SumFn(spins)
        /\ NoWolff /\ NoCacheFile /\ before = spins /\ last = Idle /\ err = "none"
        /\ nmoves = 0 /\ CpOff

\* Pinned without the membership test: no node is skipped
PinnedNever(node) == FALSE

\* "if node in self.influencer_nodes: return"
Pinned(node) == node \in influencer_nodes[1]

\* GraphIsing.move
graph_move ==
    /\ kind = "graph"
    /\ MayMove
    /\ \E node \in G.nodes :
        IF influencer_nodes = None
        THEN /\ err' = "AttributeError"
             /\ last' = Log([op |-> "move", node |-> node, flipped |-> FALSE])
             /\ UNCHANGED <<spins, energy, magnetization>>
        ELSE IF Pinned(node)
        THEN /\ err' = "none"
             /\ last' = Log([op |-> "move", node |-> node, flipped |-> FALSE])
             /\ UNCHANGED <<spins, energy, magnetization>>
        ELSE LET s == spins[node]
                 neighbor_sum == SumOver(spins, Neighbors(G, node))
                 delta_E == 2 * J * s * neighbor_sum
             IN \E flip \in Outcomes(delta_E, 1) :
                 /\ spins' = IF flip THEN FlipSite(spins, node)
                             ELSE spins
                 /\ energy' = IF flip THEN energy + delta_E ELSE energy
                 /\ magnetization' = IF flip THEN magnetization + 2 * spins'[node]
                                     ELSE magnetization
                 /\ last' = Log([op |-> "move", node |-> node, flipped |-> flip])
                 /\ err' = "none"
    /\ before' = Found(spins)
    /\ MoveReturns
    /\ UNCHANGED <<params, h, beta, spins_B, wvars>>

----------------------------------------------------------------------------
(* DirectedGraphIsing *)

compute_energy(sp) == EdgeEnergy(sp, G, J)

compute_magnetization(sp) == SumFn(sp)

\* a constructor that takes any graph for a directed one
is_directed_unchecked(g) == TRUE

\* G.is_directed()
is_directed(g) == g.directed

\* DirectedGraphIsing.__init__(G, T, J): "if not G.is_directed(): raise
\* ValueError" comes first and no object is made
DirectedGraphIsing(g, j, T) ==
    IF ~is_directed(g)
    THEN /\ kind = "none" /\ err = "ValueError"
         /\ last = [op |-> "DirectedGraphIsing", G |-> g]
         /\ G = Unset /\ size = Unset /\ J = Unset /\ beta = Unset
         /\ dim = Unset /\ length_cycle = Unset /\ influencer_nodes = None
         /\ h = Unset /\ J_B = Unset /\ C = Unset /\ spins_B = Unset
         /\ mode = Unset /\ epsilon = Unset /\ wolff = Unset
         /\ spins = Unset /\ energy = Unset /\ magnetization = Unset
         /\ NoWolff /\ NoCacheFile /\ before = Unset
         /\ nmoves = 0 /\ CpOff
    ELSE /\ kind = "directed"
         /\ G = g /\ size = Cardinality(g.nodes)
         /\ J = j /\ beta = Beta(T)
         /\ dim = Unset /\ length_cycle = Unset /\ influencer_nodes = None
         /\ h = Unset /\ J_B = Unset /\ C = Unset /\ spins_B = Unset
         /\ mode = Unset /\ epsilon = Unset /\ wolff = Unset
         /\ spins \in [g.nodes -> {-1, 1}]
         /\ energy = EdgeEnergy(spins, g, j)
         /\ magnetization = SumFn(spins)
         /\ NoWolff /\ NoCacheFile /\ before = spins /\ last = Idle /\ err = "none"
         /\ nmoves = 0 /\ CpOff

\* DirectedGraphIsing(G, T, J) on a directed graph
InitDirected ==
    \E g \in DGraphs, j \in Couplings, T \in Temps : DirectedGraphIsing(g, j, T)

\* DirectedGraphIsing.metropolis_step
metropolis_step ==
    /\ kind = "directed"
    /\ MayMove
    /\ \E node \in G.nodes :
        LET s == spins[node]
            neighbor_sum == SumOver(spins, Predecessors(G, node))
            delta_E == 2 * J * s * neighbor_sum
        IN \E flip \in Outcomes(delta_E, 1) :
            /\ spins' = IF flip THEN FlipSite(spins, node) ELSE spins
            /\ energy' = IF flip THEN energy + delta_E ELSE energy
            /\ magnetization' = IF flip THEN magnetization + 2 * spins'[node]
                                ELSE magnetization
            /\ last' = [op |-> "metropolis_step", node |-> node, flipped |-> flip]
    /\ before' = spins
    /\ MoveReturns
    /\ UNCHANGED <<params, h, beta, spins_B, err, wvars>>

----------------------------------------------------------------------------
(* DualGraphIsing *)

\* C is held in CUnit-ths: the default C = 0.2 is 2
CUnit == 10
Interlayers == {2}

\* DualGraphIsing.__init__(G, T, J_A, J_B, C); _reset_spin() draws both layers
InitDual ==
    \E g \in DualGraphs, jj \in DualCouplings, T \in Temps, c \in Interlayers :
      LET ja == jj[1]  jb == jj[2] IN
        /\ kind = "dual"
        /\ G = g /\ size = Cardinality(g.nodes) /\ dim = 1
        /\ length_cycle = Cardinality(g.nodes)
        /\ J = ja /\ J_B = jb /\ C = c /\ beta = Beta(T)
        /\ h = Unset /\ influencer_nodes = None
        /\ mode = Unset /\ epsilon = Unset /\ wolff = Unset
        /\ spins \in [g.nodes -> {-1, 1}]
        /\ spins_B \in [g.nodes -> {-1, 1}]
        /\ energy = Unset /\ magnetization = Unset
        /\ NoWolff /\ NoCacheFile /\ before = spins /\ last = Idle /\ err = "none"
        /\ nmoves = 0 /\ CpOff

\* DualGraphIsing._get_energy without the interlayer term E_C
dual_get_energy_layers_only(spA, spB) ==
    CUnit * (EdgeEnergy(spA, G, J) + EdgeEnergy(spB, G, J_B))

\* DualGraphIsing._get_energy, in CUnit-ths: E_A + E_B + E_C
dual_get_energy(spA, spB) ==
    CUnit * (EdgeEnergy(spA, G, J) + EdgeEnergy(spB, G, J_B))
    + SumFn([node \in G.nodes |-> -C * spA[node] * spB[node]])

\* LayerPass flipping the whole layer when it accepts
LayerPassWholeLayer(sp, other, j) ==
    UNION {
        LET s == sp[node]
            neighbor_sum == SumOver(sp, Neighbors(G, node))
            delta_E == 2 * s * (CUnit * j * neighbor_sum + C * other[node])
        IN {[node |-> node, flipped |-> flip,
             spins |-> IF flip THEN [n \in DOMAIN sp |-> sp[n] * (-1)] ELSE sp] :
                flip \in Outcomes(delta_E, CUnit)}
        : node \in G.nodes }

\* one pass of "for layer in ['A', 'B']" on the layer sp with coupling j and
\* the other layer other: the layers sp may become, with the node chosen
LayerPass(sp, other, j) ==
    UNION {
        LET s == sp[node]
            neighbor_sum == SumOver(sp, Neighbors(G, node))
            \* delta_E = 2 * s * (J * neighbor_sum + self.C * other[node])
            delta_E == 2 * s * (CUnit * j * neighbor_sum + C * other[node])
        IN {[node |-> node, flipped |-> flip,
             spins |-> IF flip THEN [sp EXCEPT ![node] = @ * (-1)] ELSE sp] :
                flip \in Outcomes(delta_E, CUnit)}
        : node \in G.nodes }

\* DualGraphIsing.move: layer A, then layer B against the updated layer A
dual_move ==
    /\ kind = "dual"
    /\ MayMove
    /\ \E a \in LayerPass(spins, spins_B, J) :
        \E b \in LayerPass(spins_B, a.spins, J_B) :
            /\ spins' = a.spins
            /\ spins_B' = b.spins
            /\ last' = [op |-> "move", node_A |-> a.node, flipped_A |-> a.flipped,
                        node_B |-> b.node, flipped_B |-> b.flipped]
    /\ before' = spins
    /\ MoveReturns
    /\ UNCHANGED <<params, h, beta, err, energy, magnetization, wvars>>

\* DualGraphIsing._reset_spin(to_value)
dual_reset_spin ==
    /\ kind = "dual"
    /\ MayCall
    /\ \E to_value \in {None, Some(-1), Some(1)} :
        /\ IF to_value # None
           THEN /\ spins' = [node \in G.nodes |-> to_value[1]]
                /\ spins_B' = [node \in G.nodes |-> to_value[1]]
           ELSE /\ spins' \in [G.nodes -> {-1, 1}]
                /\ spins_B' \in [G.nodes -> {-1, 1}]
        /\ last' = [op |-> "reset", to_value |-> to_value]
    /\ before' = spins
    /\ UserReturns
    /\ UNCHANGED <<params, h, beta, err, energy, magnetization, wvars>>

----------------------------------------------------------------------------
(* compute_properties(model, var_name, var_value, n_warmup, n_cycles,        *)
(* n_average, reset_state) on a NormalIsing                                  *)

MaxWarmup == 1
MaxCycles == 2
MaxAverage == 2

\* the names a caller may pass, and the sweeps of each
Names == {"T", "h", "M", "E", "chi", "C", "J"}
Sweeps(name) ==
    IF name = "h" THEN {<<>>, <<1>>, <<0, 1>>}
    ELSE {<<>>, <<<<2, 1>>>>, <<<<2, 1>>, <<1, 1000>>>>}
\* the lattices (mode 'normal') the pipeline is run on: <<L, dim>>, <<J, h, T>>
CpShapes == {<<2, 1>>}
CpPhysics == {<<1, 0, <<2, 1>>>>}

\* A number num/den, as the float arithmetic of the code yields it
Q(a, b) == [num |-> a, den |-> b]

Keys == {"M", "E", "chi", "C"}

\* results = {var_name: var_value, 'M': [], 'E': [], 'chi': [], 'C': []}: a
\* later key of the literal replaces an equal earlier one
ResultsDict(var_name, var_value) ==
    [key \in {var_name} \cup Keys |-> IF key \in Keys THEN <<>> ELSE var_value]

\* what compute_properties reads of its model
Capabilities == {"move", "_reset_spin", "_get_energy", "_get_magnetization",
                 "length_cycle", "size", "dim"}

\* the attributes and methods among them that the class of the model defines
ClassProvides(k) ==
    CASE k = "normal" -> Capabilities
      [] k = "graph" -> Capabilities \ {"_reset_spin"}
      [] k = "directed" -> {"size"}
      [] k = "dual" -> Capabilities
      [] OTHER -> {}

\* getattr(model, name) succeeds
Provides(name) == name \in ClassProvides(kind)

\* the call has executed lines 14-18
InitCP ==
    \E sh \in CpShapes, ph \in CpPhysics, w \in BOOLEAN,
       name \in Names, nw \in 0 .. MaxWarmup, nc \in 1 .. MaxCycles,
       na \in 1 .. MaxAverage, rs \in BOOLEAN :
      \* a sweep of two values takes at most two samples per value
      \E seq \in {q \in Sweeps(name) : Len(q) = 2 => nc * na <= 2} :
        /\ NormalIsing(sh, ph, "normal", 2, w)
        \* reset_state overwrites the constructor's draw before it is read
        /\ (rs => \A site \in DOMAIN spins : spins[site] = 1)
        /\ call = [var_name |-> name, var_value |-> seq, n_warmup |-> nw,
                   n_cycles |-> nc, reset_state |-> rs]
        /\ results = ResultsDict(name, seq)
        /\ cp = [pc |-> "loop", N |-> Pow(sh[1], sh[2]),
                 n_average |-> IF ~rs THEN 1 ELSE na,
                 i |-> 0, rep |-> 0, cyc |-> 0, k |-> 0,
                 av_m |-> 0, av_m2 |-> 0, av_e |-> 0, av_e2 |-> 0]
        /\ obs = [moves |-> 0, total |-> 0, nsamples |-> 0, fresh |-> FALSE,
                  m |-> 0, e |-> 0]

model == <<params, h, beta, spins, spins_B, energy, magnetization, wvars,
           before, last, nmoves>>

\* "for var in results[var_name]": the next value sets the parameter, or the
\* name is refused; an exhausted sweep returns results
cp_value ==
    /\ cp.pc = "loop"
    /\ LET sweep == results[call.var_name] IN
       IF cp.i < Len(sweep)
       THEN LET var == sweep[cp.i + 1] IN
            /\ IF call.var_name = "T"
               THEN IF var[1] = 0
                    THEN err' = "ZeroDivisionError" /\ UNCHANGED <<h, beta>>
                    ELSE beta' = Beta(var) /\ h' = h /\ err' = err
               ELSE IF call.var_name = "h"
               THEN h' = var /\ beta' = beta /\ err' = err
               ELSE err' = "ValueError" /\ UNCHANGED <<h, beta>>
            /\ cp' = IF call.var_name \in {"T", "h"}
                        /\ ~(call.var_name = "T" /\ var[1] = 0)
                     THEN [cp EXCEPT !.pc = "repeat", !.i = @ + 1, !.rep = 0,
                                     !.av_m = 0, !.av_m2 = 0, !.av_e = 0,
                                     !.av_e2 = 0]
                     ELSE [cp EXCEPT !.pc = "raised", !.i = @ + 1]
            /\ obs' = [obs EXCEPT !.nsamples = 0, !.fresh = FALSE]
       ELSE /\ cp' = [cp EXCEPT !.pc = "done"]
            /\ UNCHANGED <<h, beta, err, obs>>
    /\ UNCHANGED <<params, spins, spins_B, energy, magnetization, wvars, before,
                   last, nmoves, call, results>>

\* "for _ in range(n_average)": the next repeat resets the state when asked
\* to, and enters the warm-up loop
cp_repeat ==
    /\ cp.pc = "repeat" /\ cp.rep < cp.n_average
    /\ IF call.reset_state /\ ~Provides("_reset_spin")
       THEN /\ err' = "AttributeError"
            /\ cp' = [cp EXCEPT !.pc = "raised"]
            /\ UNCHANGED <<spins, energy, magnetization, obs>>
       ELSE /\ IF call.reset_state
               THEN /\ spins' \in AllSpins(size, dim)
                    /\ energy' = _get_energy(spins')
                    /\ magnetization' = _get_magnetization(spins')
               ELSE UNCHANGED <<spins, energy, magnetization>>
            /\ cp' = [cp EXCEPT !.pc = "warmup",
                                !.k = call.n_warmup * length_cycle]
            /\ obs' = [obs EXCEPT !.moves = 0, !.fresh = FALSE]
            /\ err' = err
    /\ UNCHANGED <<params, h, beta, spins_B, wvars, before, last, nmoves,
                   call, results>>

\* the warm-up loop is exhausted
cp_measure ==
    /\ cp.pc = "warmup" /\ cp.k = 0
    /\ cp' = [cp EXCEPT !.pc = "measure", !.cyc = 0]
    /\ UNCHANGED <<model, err, call, results, obs>>

\* "for _ in range(n_cycles)": one more sweep, or the repeat is over
cp_cycle ==
    /\ cp.pc = "measure"
    /\ cp' = IF cp.cyc < call.n_cycles
             THEN [cp EXCEPT !.pc = "sweep", !.k = length_cycle]
             ELSE [cp EXCEPT !.pc = "repeat", !.rep = @ + 1]
    /\ UNCHANGED <<model, err, call, results, obs>>

\* m = model._get_magnetization(); e = model._get_energy()
SampleM == _get_magnetization(spins)

\* SampleE reading the cached model.energy
SampleECached == energy

SampleE ==
    IF kind = "graph" THEN EdgeEnergy(spins, G, J) ELSE _get_energy(spins)

\* the sweep is over: sample and accumulate
cp_sample ==
    /\ cp.pc = "sweep" /\ cp.k = 0
    /\ LET m == SampleM
           e == SampleE
       IN /\ cp' = [cp EXCEPT !.pc = "measure", !.cyc = @ + 1,
                              !.av_m = @ + m, !.av_m2 = @ + m * m,
                              !.av_e = @ + e, !.av_e2 = @ + e * e]
          /\ obs' = [obs EXCEPT !.nsamples = @ + 1, !.fresh = TRUE,
                                !.m = m, !.e = e]
    /\ UNCHANGED <<model, err, call, results>>

\* Normalizer without n_average
NormalizerCyclesOnly == call.n_cycles

\* the divisor of "Normalize averages"
Normalizer == call.n_cycles * cp.n_average

\* fact * (av_x2 - av_x**2) / (k_B * T**p) for the means av_x2 = s2/n and
\* av_x = s1/n, fact = 1/N and T = 1/beta = beta.d/beta.n
Response(s2, s1, n, p) ==
    Q((s2 * n - s1 * s1) * Pow(beta.n, p), n * n * cp.N * Pow(beta.d, p))

Abs(x) == IF x < 0 THEN -x ELSE x

\* the repeats are over: normalize the averages and store the results
cp_store ==
    /\ cp.pc = "repeat" /\ cp.rep = cp.n_average
    /\ LET n == Normalizer
           av_m == Q(cp.av_m, n)
           av_e == Q(cp.av_e, n)
           M == IF call.var_name = "h" THEN Q(av_m.num, av_m.den * cp.N)
                ELSE Q(Abs(av_m.num), Abs(av_m.den) * cp.N)
       IN results' = [results EXCEPT
            !["M"] = Append(@, M),
            !["E"] = Append(@, Q(av_e.num, av_e.den * cp.N)),
            !["C"] = Append(@, Response(cp.av_e2, cp.av_e, n, 2)),
            !["chi"] = Append(@, Response(cp.av_m2, cp.av_m, n, 1))]
    /\ cp' = [cp EXCEPT !.pc = "loop"]
    /\ UNCHANGED <<model, err, call, obs>>

NextCP ==
    \/ cp_value \/ cp_repeat \/ cp_measure \/ cp_cycle \/ cp_sample \/ cp_store
    \/ metropolis_move \/ wolff_start \/ wolff_pop \/ wolff_dir \/ wolff_flip

SpecCP == InitCP /\ [][NextCP]_vars

\* compute_properties(model, 'T', var_value, n_warmup, n_cycles=1,
\* n_average=1, reset_state) is called on a graph model: lines 14-18, where
\* N = model.size ** model.dim
cp_call ==
    /\ kind \in {"graph", "directed"} /\ cp.pc = "off"
    /\ \E T \in Temps, nw \in 0 .. MaxWarmup, rs \in BOOLEAN :
        /\ call' = [var_name |-> "T", var_value |-> <<T>>, n_warmup |-> nw,
                    n_cycles |-> 1, reset_state |-> rs]
        /\ results' = ResultsDict("T", <<T>>)
    /\ IF Provides("size") /\ Provides("dim")
       THEN /\ cp' = [pc |-> "loop", N |-> Pow(size, dim), n_average |-> 1,
                      i |-> 0, rep |-> 0, cyc |-> 0, k |-> 0,
                      av_m |-> 0, av_m2 |-> 0, av_e |-> 0, av_e2 |-> 0]
            /\ err' = "none"
       ELSE /\ cp' = [pc |-> "raised"]
            /\ err' = "AttributeError"
    /\ obs' = [moves |-> 0, total |-> 0, nsamples |-> 0, fresh |-> FALSE,
               m |-> 0, e |-> 0]
    /\ UNCHANGED model

\* the graph models compute_properties is called on: a GraphIsing with an
\* influent association, or a DirectedGraphIsing
InitGraphModels == (InitGraph /\ influencer_nodes # None) \/ InitDirected

NextCPGraph ==
    \/ cp_call
    \/ cp_value \/ cp_repeat \/ cp_measure \/ cp_cycle \/ cp_sample \/ cp_store
    \/ graph_move \/ metropolis_step

SpecCPGraph == InitGraphModels /\ [][NextCPGraph]_vars

\* the call runs on: a step that can be taken is taken
FairSpecCP == SpecCP /\ WF_vars(NextCP)

----------------------------------------------------------------------------
(* iterations_to_treshold(class_model, var_name, var_values, kargs,          *)
(* iter_per_value, max_step, treshold) with class_model = GraphIsing,        *)
(* var_name = 'T' and kargs = {G, J, influent_association, student_graph}    *)

MaxTrials == 2
MaxStep == 3

\* var_values, and treshold as a quotient
TtSweeps == {<<>>, <<<<2, 1>>>>, <<<<2, 1>>, <<1, 1000>>>>, <<<<2, 1>>, <<2, 1>>>>}
Tresholds == {Q(-1, 1), Q(1, 3), Q(1, 2)}
TtMembers == {{0}, {0, 1}}

\* GraphIsing(**all_args) with an influent association: the spins it builds
PinnedStart(g, members) == [node \in g.nodes |-> IF node \in members THEN 1 ELSE -1]

\* the call has been made; no model exists before the first trial
InitTT ==
    \E members \in TtMembers, seq \in TtSweeps, n \in 0 .. MaxTrials,
       ms \in 0 .. MaxStep, tr \in Tresholds :
        /\ kind = "graph"
        /\ G = Path3 /\ size = Cardinality(Path3.nodes) /\ dim = 1
        /\ length_cycle = Cardinality(Path3.nodes)
        /\ J = 1 /\ influencer_nodes = Some(members)
        /\ h = Unset /\ J_B = Unset /\ C = Unset /\ spins_B = Unset
        /\ mode = Unset /\ epsilon = Unset /\ wolff = Unset
        /\ beta = Unset /\ energy = Unset /\ magnetization = Unset
        /\ spins = PinnedStart(Path3, members)
        /\ NoWolff /\ NoCacheFile /\ before = spins /\ last = Idle /\ err = "none"
        /\ nmoves = 0
        /\ call = [var_values |-> seq, iter_per_value |-> n, max_step |-> ms,
                   treshold |-> tr]
        /\ results = <<>>
        /\ cp = [pc |-> "values", i |-> 0, it |-> 0, k |-> 0,
                 threshold_reached |-> FALSE]
        /\ obs = [moves |-> 0, total |-> 0, fresh |-> FALSE]

\* the value the running trial sweeps
TtVar == call.var_values[cp.i]

\* "for var in var_values": results[var] = [], or the sweep is over
tt_value ==
    /\ cp.pc = "values"
    /\ IF cp.i < Len(call.var_values)
       THEN LET var == call.var_values[cp.i + 1] IN
            /\ results' = [v \in DOMAIN results \cup {var} |->
                             IF v = var THEN <<>> ELSE results[v]]
            /\ cp' = [cp EXCEPT !.pc = "trials", !.i = @ + 1, !.it = 0]
       ELSE /\ cp' = [cp EXCEPT !.pc = "done"]
            /\ UNCHANGED results
    /\ UNCHANGED <<model, err, call, obs>>

\* "for _ in range(iter_per_value)": model = class_model(**all_args), or the
\* trials of this value are over
tt_trial ==
    /\ cp.pc = "trials"
    /\ IF cp.it < call.iter_per_value
       THEN /\ beta' = Beta(TtVar)
            /\ IF kind = "graph"
               THEN /\ spins' = PinnedStart(G, influencer_nodes[1])
                    /\ energy' = EdgeEnergy(spins', G, J)
                    /\ magnetization' = SumFn(spins')
               ELSE /\ spins' \in AllSpins(size, dim)
                    /\ energy' = LatticeEnergy(spins', size, dim, J, h)
                    /\ magnetization' = _get_magnetization(spins')
            /\ cp' = [cp EXCEPT !.pc = "step", !.it = @ + 1,
                                !.k = call.max_step,
                                !.threshold_reached = FALSE]
            /\ obs' = [obs EXCEPT !.moves = 0]
       ELSE /\ cp' = [cp EXCEPT !.pc = "values"]
            /\ UNCHANGED <<beta, spins, energy, magnetization, obs>>
    /\ UNCHANGED <<params, h, spins_B, wvars, before, last, err, nmoves, call,
                   results>>

\* "for step in range(max_step)" is exhausted
tt_exhausted ==
    /\ cp.pc = "step" /\ cp.k = 0
    /\ cp' = [cp EXCEPT !.pc = "over"]
    /\ UNCHANGED <<model, err, call, results, obs>>

\* m > treshold with m = model.magnetization * inv_size, or equal to it
ExceedsOrEquals == magnetization * call.treshold.den >= call.treshold.num * size

\* m > treshold with m = model.magnetization * inv_size
Exceeds == magnetization * call.treshold.den > call.treshold.num * size

\* "if m > treshold: threshold_reached = True; break"
tt_test ==
    /\ cp.pc = "test"
    /\ cp' = IF Exceeds
             THEN [cp EXCEPT !.pc = "over", !.threshold_reached = TRUE]
             ELSE [cp EXCEPT !.pc = "step"]
    /\ UNCHANGED <<model, err, call, results, obs>>

\* the loop variable step when the loop was left
TtStep == call.max_step - cp.k - 1

\* "if threshold_reached: results[var].append(step)"
tt_append ==
    /\ cp.pc = "over"
    /\ results' = IF cp.threshold_reached
                  THEN [results EXCEPT ![TtVar] = Append(@, TtStep)]
                  ELSE results
    /\ cp' = [cp EXCEPT !.pc = "trials"]
    /\ UNCHANGED <<model, err, call, obs>>

NextTT ==
    \/ tt_value \/ tt_trial \/ tt_exhausted \/ tt_test \/ tt_append
    \/ graph_move

SpecTT == InitTT /\ [][NextTT]_vars

\* iterations_to_treshold with class_model = NormalIsing, var_name = 'T' and
\* kargs = {J, L, dim}: the lattices and the tresholds of the call
TtShapes == {<<2, 1>>, <<2, 2>>}
TtLatticeSweeps == {<<>>, <<<<2, 1>>>>, <<<<1, 1000>>>>}
TtLatticeTresholds == {Q(1, 2), Q(1, 1), Q(3, 2)}

\* the call has been made; no model exists before the first trial
InitTTLattice ==
    \E sh \in TtShapes, seq \in TtLatticeSweeps, n \in 0 .. MaxTrials,
       ms \in 0 .. MaxStep, tr \in TtLatticeTresholds :
        /\ kind = "normal"
        /\ size = sh[1] /\ dim = sh[2]
        /\ length_cycle = LengthCycle(FALSE, sh[1], sh[2])
        /\ J = 1 /\ h = 0 /\ mode = "normal" /\ epsilon = 2 /\ wolff = FALSE
        /\ J_B = Unset /\ C = Unset /\ G = Unset /\ influencer_nodes = None
        /\ spins_B = Unset
        /\ beta = Unset /\ energy = Unset /\ magnetization = Unset
        /\ spins = [idx \in Sites(sh[1], sh[2]) |-> 1]
        /\ NoWolff /\ NoCacheFile /\ before = spins /\ last = Idle /\ err = "none"
        /\ nmoves = 0
        /\ call = [var_values |-> seq, iter_per_value |-> n, max_step |-> ms,
                   treshold |-> tr]
        /\ results = <<>>
        /\ cp = [pc |-> "values", i |-> 0, it |-> 0, k |-> 0,
                 threshold_reached |-> FALSE]
        /\ obs = [moves |-> 0, total |-> 0, fresh |-> FALSE]

NextTTLattice ==
    \/ tt_value \/ tt_trial \/ tt_exhausted \/ tt_test \/ tt_append
    \/ metropolis_move

SpecTTLattice == InitTTLattice /\ [][NextTTLattice]_vars

----------------------------------------------------------------------------
(* CacheFile: "with CacheFile(path) as cache:" blocks on one path            *)

\* the with blocks of a run
MaxBlocks == 3

\* what a block body may assign to cache.value; json.dump refuses the last
CacheValues == {"v1", "v2", "unserializable"}
\* a file json.load refuses (empty, or not JSON)
Unreadable == "unreadable"
Files == {None, Some("v1"), Some(Unreadable)}

\* CacheObject(is_cache, value=None)
CacheObject(is_cache, value) == [is_cache |-> is_cache, value |-> value]

InitCache ==
    /\ kind = "cache"
    /\ dim = Unset /\ size = Unset /\ J = Unset /\ h = Unset /\ beta = Unset
    /\ J_B = Unset /\ C = Unset /\ G = Unset /\ influencer_nodes = None
    /\ mode = Unset /\ epsilon = Unset /\ wolff = Unset /\ length_cycle = Unset
    /\ spins = Unset /\ spins_B = Unset /\ energy = Unset
    /\ magnetization = Unset
    /\ NoWolff /\ before = Unset /\ last = Idle /\ err = "none" /\ nmoves = 0
    /\ CpOff
    /\ file \in Files /\ obj = Unset /\ blk = "outside" /\ file_at_enter = file

model_and_cp == <<kind, dim, size, J, J_B, C, G, influencer_nodes, mode, epsilon,
                  wolff, length_cycle, h, beta, spins, spins_B, energy,
                  magnetization, wvars, before, last, cpvars>>

\* CacheFile._load
_load ==
    IF file = None THEN CacheObject(FALSE, None)
    ELSE CacheObject(TRUE, Some(file[1]))

\* __enter__: self.obj = self._load(); json.load raises on an unreadable file
\* and the block is not entered
cache_enter ==
    /\ kind = "cache" /\ blk = "outside" /\ nmoves < MaxBlocks
    /\ file_at_enter' = file
    /\ IF file = Some(Unreadable)
       THEN /\ err' = "JSONDecodeError"
            /\ nmoves' = nmoves + 1
            /\ UNCHANGED <<obj, blk>>
       ELSE /\ obj' = _load
            /\ blk' = "body"
            /\ err' = "none"
            /\ UNCHANGED nmoves
    /\ UNCHANGED <<model_and_cp, file>>

\* the body of the block: it may assign cache.value, and it returns or raises
cache_body ==
    /\ kind = "cache" /\ blk = "body"
    /\ \E value \in {None} \cup {Some(v) : v \in CacheValues} :
        obj' = IF value = None THEN obj ELSE [obj EXCEPT !.value = value]
    /\ blk' \in {"returned", "raised"}
    /\ UNCHANGED <<model_and_cp, file, file_at_enter, err, nmoves>>

\* __exit__ saving whatever the block holds
MustSaveAlways == TRUE

\* __exit__: "if not self.obj.is_cache: self._save(self.obj)"
MustSave == ~obj.is_cache

\* _save writing whatever the block holds, a missing value included
NoValueStoredNever == FALSE

\* _save: "if obj.value is None: raise ValueError", before mkdir and open
NoValueStored == obj.value = None

\* __exit__, with _save: no value raises ValueError; open(path, "w") empties
\* the file before json.dump raises TypeError on a value it cannot write
cache_exit ==
    /\ kind = "cache" /\ blk \in {"returned", "raised"}
    /\ IF blk = "raised"
       THEN err' = "BodyError" /\ UNCHANGED file
       ELSE IF ~MustSave
       THEN err' = "none" /\ UNCHANGED file
       ELSE IF NoValueStored
       THEN err' = "ValueError" /\ UNCHANGED file
       ELSE IF obj.value = Some("unserializable")
       THEN err' = "TypeError" /\ file' = Some(Unreadable)
       ELSE err' = "none" /\ file' = obj.value
    /\ blk' = "outside"
    /\ nmoves' = nmoves + 1
    /\ UNCHANGED <<model_and_cp, obj, file_at_enter>>

NextCache == cache_enter \/ cache_body \/ cache_exit

SpecCache == InitCache /\ [][NextCache]_vars

----------------------------------------------------------------------------
(* Specifications *)

\* a NormalIsing under move() calls
InitLattice == InitNormal

NextLattice == metropolis_move \/ wolff_start \/ wolff_pop \/ wolff_dir \/ wolff_flip

SpecLattice == InitLattice /\ [][NextLattice]_vars

\* a GraphIsing under move() calls
SpecGraph == InitGraph /\ [][graph_move]_vars

\* a DirectedGraphIsing under metropolis_step() calls
SpecDirected == InitDirected /\ [][metropolis_step]_vars

\* every class under its moves and resets
NextDual == dual_move \/ dual_reset_spin

\* DualGraphIsing on the small graphs
SpecDual == InitDual /\ [][NextDual]_vars

\* DualGraphIsing(Cycle4) with the default J_A = J_B = 1, C = 0.2; the
\* constructor's draw is shown for the layers that start equal
InitDualCycle ==
    \E T \in Temps :
        /\ kind = "dual"
        /\ G = Cycle4 /\ size = Cardinality(Cycle4.nodes) /\ dim = 1
        /\ length_cycle = Cardinality(Cycle4.nodes)
        /\ J = 1 /\ J_B = 1 /\ C = 2 /\ beta = Beta(T)
        /\ h = Unset /\ influencer_nodes = None
        /\ mode = Unset /\ epsilon = Unset /\ wolff = Unset
        /\ spins \in [Cycle4.nodes -> {-1, 1}]
        /\ spins_B = spins
        /\ energy = Unset /\ magnetization = Unset
        /\ NoWolff /\ NoCacheFile /\ before = spins /\ last = Idle /\ err = "none"
        /\ nmoves = 0 /\ CpOff

\* resets to a value, and moves
dual_reset_to_value ==
    dual_reset_spin /\ last'.to_value # None

NextDualCycle == dual_move \/ dual_reset_to_value

SpecDualCycle == InitDualCycle /\ [][NextDualCycle]_vars

\* temperatures a caller may pass: T = 2.0, 0 and -1
AnyTemps == {<<2, 1>>, <<0, 1>>, <<-1, 1>>}

\* NormalIsing(T, J, L, dim) for any T: 1./T raises for T = 0 and no object
\* is made
InitAnyT ==
    \E sh \in CpShapes, T \in AnyTemps :
        IF T[1] = 0
        THEN /\ kind = "none" /\ err = "ZeroDivisionError"
             /\ size = sh[1] /\ dim = sh[2] /\ J = 1
             /\ h = Unset /\ beta = Unset /\ mode = Unset /\ epsilon = Unset
             /\ wolff = Unset /\ length_cycle = Unset
             /\ J_B = Unset /\ C = Unset /\ G = Unset /\ influencer_nodes = None
             /\ spins = Unset /\ spins_B = Unset
             /\ energy = Unset /\ magnetization = Unset
             /\ NoWolff /\ NoCacheFile /\ before = Unset /\ last = Idle /\ nmoves = 0
             /\ CpOff
        ELSE /\ NormalIsing(sh, <<1, 0, T>>, "normal", 2, FALSE)
             /\ CpOff

\* compute_properties(model, 'T', var_value) for any temperatures
InitCpAnyT ==
    \E sh \in CpShapes, ph \in CpPhysics, T \in AnyTemps, rs \in BOOLEAN,
       nw \in 0 .. MaxWarmup :
        /\ NormalIsing(sh, ph, "normal", 2, FALSE)
        /\ call = [var_name |-> "T", var_value |-> <<T>>, n_warmup |-> nw,
                   n_cycles |-> 1, reset_state |-> rs]
        /\ results = ResultsDict("T", <<T>>)
        /\ cp = [pc |-> "loop", N |-> Pow(sh[1], sh[2]), n_average |-> 1,
                 i |-> 0, rep |-> 0, cyc |-> 0, k |-> 0,
                 av_m |-> 0, av_m2 |-> 0, av_e |-> 0, av_e2 |-> 0]
        /\ obs = [moves |-> 0, total |-> 0, nsamples |-> 0, fresh |-> FALSE,
                  m |-> 0, e |-> 0]

NextAnyT ==
    \/ cp_value \/ cp_repeat \/ cp_measure \/ cp_cycle \/ cp_sample \/ cp_store
    \/ metropolis_move

\* constructors and sweeps with any temperature
InitTemperature == InitAnyT \/ InitCpAnyT

SpecAnyT == InitTemperature /\ [][NextAnyT]_vars

\* DirectedGraphIsing(G, T, J) on any networkx graph
AnyGraphs == DGraphs \cup UGraphs

InitDirectedAnyG ==
    \E g \in AnyGraphs, j \in Couplings, T \in Temps : DirectedGraphIsing(g, j, T)

SpecDirectedAnyG == InitDirectedAnyG /\ [][metropolis_step]_vars

\* a NormalIsing under the user's moves and resets, or under a run of
\* compute_properties
InitNormalUse == InitNormal \/ InitCP

NextNormalUse == NextCP \/ reset_spin

SpecNormalUse == InitNormalUse /\ [][NextNormalUse]_vars

\* NormalIsing(T, J=1, L=2, dim=2), h = 0, mode 'normal', Metropolis
InitSquare ==
    \E T \in Temps :
        /\ NormalIsing(<<2, 2>>, <<1, 0, T>>, "normal", 2, FALSE)
        /\ CpOff

NextSquare == metropolis_move \/ reset_spin

SpecSquare == InitSquare /\ [][NextSquare]_vars

\* Wolff lattices of several couplings at T = 2: <<L, dim>>, J
WolffShapes == {<<2, 1>>, <<3, 1>>}
WolffCouplings == {1, 0, -1, 2}

InitWolffJ ==
    \E sh \in WolffShapes, j \in WolffCouplings :
        /\ NormalIsing(sh, <<j, 0, <<2, 1>>>>, "normal", 2, TRUE)
        /\ CpOff

NextWolffJ == wolff_start \/ wolff_pop \/ wolff_dir \/ wolff_flip

SpecWolffJ == InitWolffJ /\ [][NextWolffJ]_vars

\* NormalIsing(T, J, L, dim, h, wolff=True) of every shape, and its moves, each
\* of which runs on once it is called
InitWolff ==
    \E sh \in Shapes, ph \in Physics :
        /\ NormalIsing(sh, ph, "normal", 2, TRUE)
        /\ CpOff

SpecWolff == InitWolff /\ [][wolff_move]_vars

FairSpecWolff == SpecWolff /\ WF_vars(wolff_move)

Init == InitNormal \/ InitGraph \/ InitDirected \/ InitDual

Next ==
    \/ metropolis_move \/ wolff_start \/ wolff_pop \/ wolff_dir \/ wolff_flip
    \/ reset_spin
    \/ graph_move
    \/ metropolis_step
    \/ dual_move \/ dual_reset_spin

Spec == Init /\ [][Next]_vars

----------------------------------------------------------------------------
(* Claims *)

Range(s) == {s[i] : i \in DOMAIN s}

CacheMatches ==
    /\ energy = _get_energy(spins)
    /\ magnetization = _get_magnetization(spins)

\* C1: on a lattice in mode 'normal' with Metropolis updates, for every
\* dimension and side (L = 1 and L = 2 included), after construction and
\* after every metropolis_move the cached energy equals _get_energy() and the
\* cached magnetization equals _get_magnetization().
C1_NormalCacheMatches ==
    (kind = "normal" /\ mode = "normal" /\ ~wolff) => CacheMatches

\* C3: on a lattice in mode 'self_identity', whenever a metropolis_move has
\* returned the cached energy and magnetization equal the recomputed values.
\* Stated on lattices of side L >= 2, where the energy-based rule keeps the
\* cache (for L = 1 see C1), so that the moves it speaks of are those of the
\* self_identity rule.
C3_SelfIdentityCacheMatches ==
    (kind = "normal" /\ mode = "self_identity" /\ ~wolff /\ size >= 2)
        => CacheMatches

\* the energy-based rule as the last metropolis_move applied it
LastAppliedNormalRule ==
    /\ last.delta_energy = 2 * J * last.spin * last.total_neighbor
                           + 2 * h * last.spin
    /\ last.flipped = ExpLess(last.u, beta.n * last.delta_energy, beta.d)

\* C10 as written: in self_identity mode a minority spin (s * sum < 0) is
\* flipped iff the draw u is below epsilon; otherwise the normal-mode rule
\* with delta_E = 2*J*s*sum + 2*h*s is applied.
C10_MinorityFlipsBelowEpsilon ==
    (kind = "normal" /\ mode = "self_identity" /\ last.op = "metropolis") =>
        IF last.spin * last.total_neighbor < 0
        THEN last.flipped = (last.u < epsilon)
        ELSE LastAppliedNormalRule

\* C10 amended: in self_identity mode a minority spin (s * sum < 0) is flipped
\* iff the draw u is below 1 - epsilon, whatever J, h, beta and the energy
\* change are (the cached energy is left as it was); otherwise the
\* normal-mode rule with delta_E = 2*J*s*sum + 2*h*s is applied.
C10_MinorityFlipsBelowOneMinusEpsilon ==
    (kind = "normal" /\ mode = "self_identity" /\ last.op = "metropolis") =>
        IF last.spin * last.total_neighbor < 0
        THEN /\ last.flipped = (last.u < Grid - epsilon)
             /\ last.delta_energy = 0
             /\ spins = (IF last.flipped
                         THEN [before EXCEPT ![last.idx] = -last.spin]
                         ELSE before)
        ELSE LastAppliedNormalRule

\* a minority spin was flipped by a draw that is not below epsilon, and another
\* state where a spin in the majority was flipped by the energy rule
C10_Witness ==
    /\ kind = "normal" /\ mode = "self_identity" /\ last.op = "metropolis"
    /\ last.spin * last.total_neighbor < 0
    /\ last.flipped /\ ~(last.u < epsilon)
    /\ spins[last.idx] = -last.spin

\* C6: after one wolff_move the sites whose spin differs are exactly the
\* cluster: it holds the seed, every member had the seed's spin, every member
\* but the seed is a periodic neighbour of a member marked earlier, every
\* member is negated once and every other site is unchanged.
C6_WolffFlipsExactlyTheCluster ==
    (kind = "normal" /\ last.op = "wolff" /\ wpc = "idle") =>
        LET changed == {s \in DOMAIN spins : spins[s] # before[s]}
            marked == last.order
        IN  /\ changed = last.in_cluster
            /\ changed = Range(marked)
            /\ last.idx \in changed /\ marked[1] = last.idx
            /\ \A m \in changed : before[m] = before[last.idx]
            /\ \A i \in 2 .. Len(marked) : \E k \in 1 .. (i - 1) :
                   marked[i] \in Range(NeighborIdx(marked[k], FALSE, size, dim))
            /\ \A i, k \in 1 .. Len(marked) : marked[i] = marked[k] => i = k
            /\ \A m \in changed : spins[m] = -before[m]
            /\ \A s \in (DOMAIN spins) \ changed : spins[s] = before[s]

\* a wolff_move has flipped a cluster of three sites or more that is not the
\* whole lattice
C6_Witness ==
    /\ kind = "normal" /\ last.op = "wolff" /\ wpc = "idle"
    /\ Cardinality(last.in_cluster) >= 3
    /\ last.in_cluster # DOMAIN spins
    /\ \A s \in last.in_cluster : spins[s] = -before[s]

\* C2: on a directed graph, after construction and after every
\* metropolis_step the cached energy equals compute_energy() (the sum of
\* -J*s_i*s_j, once per directed edge) and the cached magnetization equals the
\* sum of the spins.
C2_DirectedCacheMatches ==
    kind = "directed" =>
        /\ energy = compute_energy(spins)
        /\ magnetization = compute_magnetization(spins)

\* the sites of the object: lattice coordinates or graph nodes
SiteSet == IF kind = "normal" THEN Sites(size, dim) ELSE G.nodes

IsSpinConfiguration(sp) ==
    /\ DOMAIN sp = SiteSet
    /\ \A s \in SiteSet : sp[s] \in {-1, 1}

\* C4: in every variant, after construction and any sequence of moves and
\* resets (no value, -1 or +1), every site's spin is -1 or +1 and the set of
\* sites is unchanged (both layers of a DualGraphIsing).
C4_SpinsArePlusMinusOne ==
    /\ IsSpinConfiguration(spins)
    /\ kind = "dual" => IsSpinConfiguration(spins_B)

\* a lattice reset to a fixed value after an earlier call
C4_Witness ==
    /\ kind = "normal" /\ nmoves = 2
    /\ last.op = "reset" /\ last.to_value = Some(-1)
    /\ \A s \in SiteSet : spins[s] = -1
    /\ \E s \in SiteSet : before[s] = 1

\* C5: with an influencer association every pinned node keeps the spin +1 it
\* got at construction through every move(), and a move() that draws a pinned
\* node changes neither spins, energy nor magnetization.
C5_PinnedNodesNeverChange ==
    /\ [](kind = "graph" /\ influencer_nodes # None
            => \A n \in influencer_nodes[1] : spins[n] = 1)
    /\ [][(kind = "graph" /\ influencer_nodes # None /\ last'.op = "move"
             /\ last'.node \in influencer_nodes[1])
            => UNCHANGED <<spins, energy, magnetization>>]_vars

\* a move() drew a pinned node after an earlier move() flipped a free one
C5_Witness ==
    /\ kind = "graph" /\ influencer_nodes # None /\ nmoves = 2
    /\ last.op = "move" /\ last.node \in influencer_nodes[1]
    /\ \E n \in G.nodes \ influencer_nodes[1] : spins[n] = 1
    /\ spins = before

\* the call of compute_properties is over: it returned results or raised
CallOver == cp.pc \in {"done", "raised"}

\* the model is as the constructor left it
ModelUntouched ==
    /\ spins = before
    /\ energy = _get_energy(before)
    /\ magnetization = _get_magnetization(before)
    /\ \E ph \in CpPhysics : h = ph[2] /\ beta = Beta(ph[3])

\* C7: compute_properties called with a var_name other than 'T' or 'h', the
\* result keys 'M', 'E', 'chi', 'C' included, and with any value sequence,
\* ends in a ValueError, and before it no move was executed and beta, h,
\* spins, energy and magnetization of the model are unchanged
C7_OtherNameRaisesValueError ==
    (CallOver /\ call.var_name \notin {"T", "h"}) =>
        /\ cp.pc = "raised" /\ err = "ValueError"
        /\ obs.total = 0
        /\ ModelUntouched

\* the part of C7 the code keeps: a call that raises has moved nothing
C7_RaisedBeforeAnyMove ==
    cp.pc = "raised" =>
        err = "ValueError" /\ obs.total = 0 /\ ModelUntouched

\* a swept value has been started and its results are not stored yet
Accumulating == cp.pc \in {"repeat", "warmup", "measure", "sweep"}

\* the results of the last swept value have just been stored
Stored == cp.pc = "loop" /\ cp.i >= 1

\* C8: for each swept value and each repeat, n_warmup * length_cycle moves
\* come before the first sample, and every one of the n_cycles samples comes
\* right after length_cycle further moves; a sample is _get_magnetization()
\* and _get_energy() of the current spins; a swept value accumulates
\* n_cycles * n_average samples, and the sums are divided by that number
\* only after the last repeat
C8_SamplingSchedule ==
    /\ (obs.fresh /\ cp.pc = "measure") =>
        /\ cp.cyc \in 1 .. call.n_cycles
        /\ obs.moves = (call.n_warmup + cp.cyc) * length_cycle
        /\ obs.nsamples = cp.rep * call.n_cycles + cp.cyc
        /\ obs.m = _get_magnetization(spins)
        /\ obs.e = _get_energy(spins)
    /\ (cp.pc = "measure" /\ cp.cyc = 0) =>
        obs.moves = call.n_warmup * length_cycle
    /\ cp.pc = "sweep" =>
        obs.moves = (call.n_warmup + cp.cyc + 1) * length_cycle - cp.k
    /\ Accumulating =>
        /\ \A key \in Keys : Len(results[key]) = cp.i - 1
        /\ obs.nsamples <= call.n_cycles * cp.n_average
    /\ Stored =>
        /\ obs.nsamples = call.n_cycles * cp.n_average
        /\ \A key \in Keys : Len(results[key]) = cp.i
        /\ results["E"][cp.i] = Q(cp.av_e, obs.nsamples * cp.N)
        /\ results["M"][cp.i].den = obs.nsamples * cp.N

\* the results of two repeats of two cycles, each after a warm-up, are stored
C8_Witness ==
    /\ Stored /\ obs.fresh
    /\ call.n_warmup = 1 /\ call.n_cycles = 2 /\ cp.n_average = 2
    /\ length_cycle = 2
    /\ obs.moves = 6 /\ obs.nsamples = 4

\* a sample taken while the cached energy is out of date
C8_StaleCacheWitness ==
    obs.fresh /\ cp.pc = "measure" /\ energy # _get_energy(spins) /\ obs.e = _get_energy(spins)

\* C9: for T > 0 and n_cycles >= 1, whatever the samples, the values
\* appended to 'chi' and 'C' are >= 0
C9_ResponsesNonNegative ==
    \A key \in {"chi", "C"} :
        \A n \in 1 .. Len(results[key]) :
            results[key][n].den > 0 /\ results[key][n].num >= 0

\* a stored susceptibility and specific heat of samples that differ, over
\* two repeats
C9_Witness ==
    /\ Stored /\ cp.n_average = 2
    /\ results["chi"][cp.i].num > 0
    /\ \E n \in 1 .. cp.i : results["C"][n].num > 0

\* the sites of a layer whose spin a step changes
ChangedA == {n \in DOMAIN spins : spins'[n] # spins[n]}
ChangedB == {n \in DOMAIN spins_B : spins_B'[n] # spins_B[n]}

\* a step that is one call of DualGraphIsing.move
IsDualMove == kind = "dual" /\ last'.op = "move"

\* C11 as written: one call of DualGraphIsing.move() selects one of the two
\* layers and one site in it: it changes at most one spin in total, and the
\* layer that was not selected is the same before and after the call
C11_MoveTouchesOneLayer ==
    [][IsDualMove =>
        /\ Cardinality(ChangedA) + Cardinality(ChangedB) <= 1
        /\ (spins' = spins \/ spins_B' = spins_B)]_vars

\* C11 as the code has it: one call of DualGraphIsing.move() visits both
\* layers, A then B, with one site drawn in each: it changes at most one spin
\* of each layer, the drawn site's, and nothing else
C11_MoveTouchesOneSitePerLayer ==
    [][IsDualMove =>
        /\ ChangedA = IF last'.flipped_A THEN {last'.node_A} ELSE {}
        /\ ChangedB = IF last'.flipped_B THEN {last'.node_B} ELSE {}
        /\ \A n \in ChangedA : spins'[n] = -spins[n]
        /\ \A n \in ChangedB : spins_B'[n] = -spins_B[n]]_vars

\* one call has flipped a spin of layer A and a spin of layer B
C11_Witness ==
    /\ kind = "dual" /\ last.op = "move"
    /\ last.flipped_A /\ last.flipped_B
    /\ spins # before

\* both layers of the default model on the 4-cycle have just been reset to +1
CycleResetToPlusOne ==
    /\ kind = "dual" /\ G = Cycle4 /\ J = 1 /\ J_B = 1 /\ C = 2
    /\ last.op = "reset" /\ last.to_value = Some(1)

\* C12 as written: on the 4-node cycle with J_A = J_B = 1, C = 0.2 and both
\* layers reset to +1, _get_energy() returns -12.8 (-128 tenths)
C12_CycleEnergyMinus12p8 ==
    CycleResetToPlusOne => dual_get_energy(spins, spins_B) = -128

\* C12 as the code has it: four bonds per layer and four interlayer pairs
\* give -4 - 4 - 0.8 = -8.8 (-88 tenths)
C12_CycleEnergyMinus8p8 ==
    CycleResetToPlusOne => dual_get_energy(spins, spins_B) = -88

\* the reset to +1 came after a move had changed the layers
C12_Witness ==
    /\ CycleResetToPlusOne
    /\ nmoves = 2
    /\ \E n \in DOMAIN before : before[n] = -1
    /\ \A n \in DOMAIN spins : spins[n] = 1 /\ spins_B[n] = 1

\* the normalized magnetization of the current spins exceeds the threshold
NormalizedExceeds ==
    SumFn(spins) * call.treshold.den > call.treshold.num * Cardinality(G.nodes)

\* a trial of iterations_to_treshold is running on its model
InTrial == cp.pc \in {"step", "test", "over"}

\* what holds of every state of a run of iterations_to_treshold
TrialStateRule ==
    /\ InTrial =>
        /\ obs.moves = call.max_step - cp.k
        /\ obs.moves \in 0 .. call.max_step
        /\ cp.it \in 1 .. call.iter_per_value
    \* a fresh model for every trial
    /\ (cp.pc = "step" /\ obs.moves = 0) =>
        /\ spins = PinnedStart(G, influencer_nodes[1])
        /\ magnetization = SumFn(spins)
        /\ beta = Beta(TtVar)
    \* the trial goes on only while no move has crossed the threshold
    /\ (cp.pc = "step" /\ obs.moves > 0) => ~NormalizedExceeds
    \* it is over at the first crossing, or when the budget is spent
    /\ cp.pc = "over" =>
        \/ obs.moves > 0 /\ NormalizedExceeds
        \/ obs.moves = call.max_step
    /\ cp.pc \in {"values", "trials", "step", "test", "over", "done"} =>
        \A v \in DOMAIN results :
            /\ Len(results[v]) <= call.iter_per_value
            /\ \A n \in 1 .. Len(results[v]) :
                results[v][n] \in 0 .. (call.max_step - 1)
    /\ (InTrial \/ cp.pc = "trials") => Len(results[TtVar]) <= cp.it

\* what holds of every step of a run of iterations_to_treshold
TrialStepRule ==
    /\ cp.pc = "over" =>
        /\ results' = IF obs.moves > 0 /\ NormalizedExceeds
                      THEN [results EXCEPT ![TtVar] = Append(@, obs.moves - 1)]
                      ELSE results
        /\ spins' = spins
    \* moves are made one at a time, by a running trial only
    /\ (cp.pc \in {"values", "trials", "test", "over"}) =>
        obs'.total = obs.total
    /\ cp.pc = "step" => obs'.total \in {obs.total, obs.total + 1}

BetaIsPositive == beta.n > 0 /\ beta.d > 0

\* C14: a temperature T <= 0 given to a constructor or swept by
\* compute_properties is refused with an input-validation error: no model
\* with a non-positive or infinite beta is ever created or stepped, and no
\* division fault is propagated
C14_NonPositiveTemperatureRefused ==
    /\ err # "ZeroDivisionError"
    /\ kind # "none" => BetaIsPositive

\* C15: over any sequence of with blocks on one path, the file is written on
\* block exit only if no file existed when the block was entered and the
\* body raised nothing; on a cache hit the file is left as it was even if
\* the body assigns a new value; if the body raises, nothing is written and
\* the exception propagates
C15_WritesOnlyOnMissNoError ==
    [][/\ file' # file =>
            /\ blk = "returned"
            /\ file_at_enter = None
       /\ (blk \in {"returned", "raised"} /\ file_at_enter # None) =>
            file' = file
       /\ blk = "raised" => file' = file /\ err' = "BodyError"]_vars

\* the second block of a run hit the cache and has returned with another
\* value assigned
C15_Witness ==
    /\ kind = "cache" /\ blk = "outside" /\ nmoves = 2 /\ err = "none"
    /\ file = Some("v1") /\ file_at_enter = Some("v1")
    /\ obj.is_cache /\ obj.value = Some("v2")

\* the entry was missing or unreadable when the block was last entered
MissingOrUnreadable == file_at_enter \in {None, Some(Unreadable)}

\* C16: entering a block when the entry is missing or unreadable raises no
\* error and yields a cache object with is_cache = False (the caller then
\* computes the value and the exit populates the file)
C16_UnreadableIsACacheMiss ==
    (kind = "cache" /\ MissingOrUnreadable) =>
        /\ err # "JSONDecodeError"
        /\ blk = "body" => ~obj.is_cache

\* the call of compute_properties has returned its results
Returned == cp.pc = "done"

C18_CycleLengthAndMoveAreFixed ==
    /\ [](kind = "normal" =>
            /\ ~wolff => /\ length_cycle = Pow(size, dim)
                         /\ length_cycle = Cardinality(DOMAIN spins)
                         /\ last.op \in {"none", "metropolis", "reset"}
            /\ wolff => /\ length_cycle = 1
                        /\ last.op \in {"none", "running", "wolff", "reset"})
    /\ [][kind = "normal" => length_cycle' = length_cycle /\ wolff' = wolff]_vars

\* a Wolff lattice of several sites after two calls, the last a move
C18_Witness ==
    /\ kind = "normal" /\ wolff /\ size = 2 /\ dim = 2
    /\ length_cycle = 1 /\ nmoves = 2 /\ last.op = "wolff"

\* a Metropolis lattice inside a run of compute_properties
C18_WitnessInRun ==
    /\ kind = "normal" /\ ~wolff /\ cp.pc = "sweep" /\ obs.total > 2
    /\ length_cycle = 2

\* the last call was a metropolis_move on the 2 x 2 lattice with J = 1, h = 0
\* in mode 'normal'
SquareMove ==
    /\ kind = "normal" /\ dim = 2 /\ size = 2 /\ J = 1 /\ h = 0
    /\ mode = "normal" /\ last.op = "metropolis"

AllUp(sp) == \A site \in DOMAIN sp : sp[site] = 1

\* C19: on the 2 x 2 lattice with J = 1, h = 0, mode 'normal' and all spins
\* +1, a metropolis_move on any site computes delta_E = 8 (neighbour sum 4)
\* and flips only if the draw is below exp(-8*beta): at T = 2 (exp(-4) =
\* 0.018) for the draw 0 only, and at T = 0.001, where exp(-8000) is 0, never,
\* so the all-up state is not left; a candidate with delta_E <= 0 is always
\* accepted
C19_GroundStateMove ==
    SquareMove =>
        /\ AllUp(before) =>
            /\ last.total_neighbor = 4
            /\ last.delta_energy = 8
            /\ beta = Beta(<<2, 1>>) => (last.flipped <=> last.u = 0)
            /\ beta = Beta(<<1, 1000>>) => ~last.flipped /\ AllUp(spins)
        /\ last.delta_energy <= 0 => last.flipped
        /\ spins # before => last.flipped

\* a move on the all-up lattice at T = 0.001 was rejected, after an earlier
\* call
C19_Witness ==
    /\ SquareMove /\ AllUp(before) /\ AllUp(spins)
    /\ beta = Beta(<<1, 1000>>) /\ last.u = 0 /\ ~last.flipped
    /\ nmoves = 2

\* a move with delta_E <= 0 was accepted on a large draw
C19_WitnessDownhill ==
    SquareMove /\ last.delta_energy < 0 /\ last.u = Grid - 1 /\ last.flipped

\* u < p for the draw u and the bond probability p = 1 - exp(-2*beta*J)
BondAcceptedWithJ(u) ==
    IF u = 0 THEN 2 * beta.n * J > 0
    ELSE ~ExpLess(Grid - u, 2 * beta.n * J, beta.d)

\* a step of "for d in directions" that tests a bond: the neighbour joins the
\* cluster on a draw below p = 1 - exp(-2*beta*J) and stays out on any other
WolffBondRule ==
    (kind = "normal" /\ wpc = "dir") =>
        LET d == Directions(dim)[wdir]
            neigh_idx == [i \in 1 .. dim |-> (widx[i] + d[i]) % size]
        IN Candidate(neigh_idx) =>
            IF in_cluster' # in_cluster
            THEN \E u \in Draws : BondAcceptedWithJ(u)
            ELSE \E u \in Draws : ~BondAcceptedWithJ(u)

\* C20: the bond probability of wolff_move is p = 1 - exp(-2*beta*J): it
\* depends on J as well as on beta (J = 0 gives p = 0 and a cluster that is
\* the seed alone)
C20_BondProbabilityUsesJ == [][WolffBondRule]_vars

\* the body of a block entered on a miss has returned with no value assigned
MissWithoutValue ==
    /\ kind = "cache" /\ blk = "returned"
    /\ ~obj.is_cache /\ obj.value = None

\* C21: leaving a block on a cache miss with no value assigned and no
\* exception in the body fails with ValueError, and no file is created or
\* modified at the path
C21_MissWithoutValueRaises ==
    [][MissWithoutValue =>
         /\ err' = "ValueError"
         /\ file = None /\ file' = None]_vars

\* a block entered on a miss was left with no value and raised ValueError
C21_Witness ==
    /\ kind = "cache" /\ blk = "outside" /\ err = "ValueError"
    /\ file_at_enter = None /\ file = None
    /\ ~obj.is_cache /\ obj.value = None

\* C22: constructing DirectedGraphIsing with an undirected graph fails with
\* ValueError before any spin, energy or magnetization state is initialised;
\* with a directed graph the construction succeeds
C22_UndirectedGraphRefused ==
    /\ kind = "none" =>
          /\ ~last.G.directed /\ err = "ValueError"
          /\ spins = Unset /\ energy = Unset /\ magnetization = Unset
    /\ kind = "directed" =>
          /\ G.directed /\ err = "none"
          /\ spins \in [G.nodes -> {-1, 1}]
          /\ nmoves = 0 =>
                /\ energy = compute_energy(spins)
                /\ magnetization = compute_magnetization(spins)

\* the constructor was given the undirected path of three nodes and raised
C22_Witness ==
    /\ kind = "none" /\ err = "ValueError"
    /\ last = [op |-> "DirectedGraphIsing", G |-> Path3]

\* the constructor was given a directed graph and its object has been stepped
C22_WitnessDirected ==
    /\ kind = "directed" /\ G = DiFan /\ last.op = "metropolis_step"

\* C23: for a GraphIsing constructed without an influencer association the
\* pinned set is empty and every move() completes without error, as an
\* ordinary Metropolis update that keeps the cached energy and magnetization
\* equal to their recomputed values
C23_NoInfluencerMoveCompletes ==
    (kind = "graph" /\ influencer_nodes = None) =>
        /\ err = "none"
        /\ energy = EdgeEnergy(spins, G, J)
        /\ magnetization = SumFn(spins)

\* the number of sites of the model of the running trial
NumberOfSites == IF kind = "normal" THEN Pow(size, dim) ELSE size

\* C24: in iterations_to_treshold the quantity compared with the threshold
\* after each move is the total magnetization divided by the total number of
\* sites, so it lies in [-1, 1] for every model class, a lattice with
\* dim >= 2 included, and a threshold >= 1 is never exceeded
C24_ComparedQuantityIsPerSite ==
    InTrial =>
        /\ cp.pc = "test" =>
              (Exceeds <=> magnetization * call.treshold.den
                               > call.treshold.num * NumberOfSites)
        /\ call.treshold.num >= call.treshold.den => ~cp.threshold_reached

\* a sequence holds no site twice
NoRepeat(seq) == \A i, k \in 1 .. Len(seq) : seq[i] = seq[k] => i = k

\* a wolff_move is growing its cluster
Growing == kind = "normal" /\ wpc # "idle"

\* C25: every wolff_move terminates: during cluster growth each site is
\* marked in_cluster and pushed on the work list at most once (the work list
\* never holds a site twice, also for L = 1 and L = 2), so at most N = L^d
\* sites are popped, and the loop ends with an empty work list before any
\* spin is flipped
C25_WolffMoveTerminates ==
    /\ [](Growing =>
            /\ NoRepeat(order) /\ NoRepeat(stack)
            /\ Range(order) = in_cluster
            /\ Range(stack) \subseteq in_cluster
            /\ Len(order) <= Pow(size, dim)
            /\ spins = before)
    /\ [][(Growing /\ spins' # spins) => (stack = <<>> /\ wpc' = "idle")]_vars
    /\ (Growing ~> wpc = "idle")

\* a move on the ring of two sites, or on the 2 x 2 lattice, took every site
\* into its cluster and has returned
C25_Witness ==
    /\ kind = "normal" /\ wpc = "idle" /\ last.op = "wolff"
    /\ size = 2 /\ last.in_cluster = DOMAIN spins
    /\ Len(last.order) = Pow(size, dim)

\* C26: after a reset of a NormalIsing (with or without a fixed value) has
\* returned, the cached energy and magnetization equal the values recomputed
\* from the new spins, so that a move after construct, reset(to_value=1)
\* starts from a cache that is consistent with the spins
C26_ResetRefreshesCache ==
    (kind = "normal" /\ last.op = "reset") =>
        /\ energy = _get_energy(spins)
        /\ magnetization = _get_magnetization(spins)

\* C27: every variant provides the full capability set compute_properties
\* uses (move, _reset_spin, _get_energy, _get_magnetization, length_cycle,
\* size, dim), so that compute_properties with its default reset_state=True
\* runs a sweep on any variant without a missing-operation error
C27_SweepMeetsNoMissingOperation ==
    (call # None /\ call.reset_state) => err # "AttributeError"

\* a user's call of the Metropolis move of a lattice, a GraphIsing or a
\* DirectedGraphIsing returns in this step
MetropolisReturns ==
    /\ kind \in {"normal", "graph", "directed"}
    /\ nmoves' = nmoves + 1
    /\ last'.op \in {"metropolis", "move", "metropolis_step"}

\* the site the move has drawn
Drawn == IF kind = "normal" THEN last'.idx ELSE last'.node

MetropolisFrameRule ==
    MetropolisReturns =>
        LET changed == {s \in DOMAIN spins : spins'[s] # spins[s]} IN
        /\ DOMAIN spins' = DOMAIN spins
        /\ changed \subseteq {Drawn}
        /\ last'.flipped => (changed = {Drawn} /\ spins'[Drawn] = -spins[Drawn])
        /\ ~last'.flipped =>
              /\ spins' = spins
              /\ energy' = energy
              /\ magnetization' = magnetization
        /\ UNCHANGED <<J, h, beta, epsilon, mode, G, size, dim, length_cycle>>

\* C28: one Metropolis move of a lattice, a GraphIsing or a
\* DirectedGraphIsing changes the spin of at most one site, the drawn one;
\* when the candidate is rejected the spins, the cached energy and the cached
\* magnetization are unchanged; in every case J, h, beta, epsilon, mode, the
\* topology and length_cycle are unchanged
C28_MetropolisMoveFrame == [][MetropolisFrameRule]_vars

\* the second move on a lattice of four sites has flipped the site it drew
C28_Witness ==
    /\ kind = "normal" /\ last.op = "metropolis" /\ last.flipped
    /\ nmoves = 2 /\ Cardinality(DOMAIN spins) = 4
    /\ spins[last.idx] = -before[last.idx]

\* a move on a graph has been rejected
C28_WitnessRejected ==
    /\ kind \in {"graph", "directed"} /\ last.op \in {"move", "metropolis_step"}
    /\ ~last.flipped /\ spins = before /\ err = "none"

====
